---- MODULE Spec2Model ----
(***************************************************************************)
(* A model of field.js: an interactive vector field drawn on an HTML5      *)
(* canvas.  setup() sizes the canvas to the viewport and builds a grid of  *)
(* Vectors; every mousemove event clears the canvas, strokes the grid      *)
(* lines and updates and draws every Vector.                               *)
(*                                                                         *)
(* Numbers.  The program computes with square roots and with the sine and  *)
(* cosine of atan2 angles.  Every quantity a Vector computes lies in the   *)
(* field Q(sqrt n) for the square-free part n of the squared distance      *)
(* between anchor and pointer, so a number is modelled exactly as          *)
(*     [a, b, c, n]  =  (a + b * sqrt(n)) / c                              *)
(* in lowest terms, with c > 0, n square-free, and n = 1 when b = 0.       *)
(* An angle returned by atan2 is modelled by the ray it names: the pair    *)
(* [dy, dx] in lowest terms (atan2(0, 0) = 0 is the ray [0, 1]).           *)
(* Arithmetic is that of the reals; the rounding of IEEE doubles is        *)
(* modelled only where it changes an integer result (FloorQuot).           *)
(***************************************************************************)
EXTENDS Integers, Sequences, FiniteSets, TLC

(***************************************************************************)
(* Bounds of the model.                                                    *)
(***************************************************************************)
\* viewport widths are 0, 14, 28, ... MaxHalfCells * 14, and 36
MaxHalfCells == 4
\* pointer x coordinates are 20 + 7k for k in -MaxMouse .. MaxMouse
MaxMouse == 2
\* a Field under test is constructed with 1 .. MaxSize columns and rows
MaxSize == 3
\* init() is called at most MaxInits times on a Field under test
MaxInits == 2
\* at most MaxEvents mousemove events are handled
MaxEvents == 2

(***************************************************************************)
(* Integer helpers.                                                        *)
(***************************************************************************)
Abs(k) == IF k < 0 THEN -k ELSE k

Sgn(k) == IF k < 0 THEN -1 ELSE IF k = 0 THEN 0 ELSE 1

RECURSIVE Gcd(_, _)
Gcd(p, q) == IF q = 0 THEN p ELSE Gcd(q, p % q)

\* floor of the square root of m >= 0
RECURSIVE Isqrt(_)
Isqrt(m) ==
    IF m < 2 THEN m
    ELSE LET r == 2 * Isqrt(m \div 4)
         IN  IF (r + 1) * (r + 1) <= m THEN r + 1 ELSE r

RECURSIVE SquarePartFrom(_, _)
SquarePartFrom(m, g) ==
    IF g <= 1 THEN 1
    ELSE IF m % (g * g) = 0 THEN g ELSE SquarePartFrom(m, g - 1)

\* the largest g with g * g dividing m > 0
SquarePart(m) == SquarePartFrom(m, Isqrt(m))

\* the sign of p/q - r/s for p, r >= 0 and q, s > 0, by continued fractions
\* (no product is formed, so nothing overflows)
RECURSIVE FracCmp(_, _, _, _)
FracCmp(p, q, r, s) ==
    LET q1 == p \div q
        q2 == r \div s
        r1 == p % q
        r2 == r % s
    IN  IF q1 # q2 THEN Sgn(q1 - q2)
        ELSE IF r1 = 0 /\ r2 = 0 THEN 0
        ELSE IF r1 = 0 THEN -1
        ELSE IF r2 = 0 THEN 1
        ELSE -FracCmp(q, r1, s, r2)

(***************************************************************************)
(* Numbers of Q(sqrt n), and the two values of a double that are not       *)
(* numbers.                                                                *)
(***************************************************************************)
NaN == [nan |-> TRUE]

Infinity == [inf |-> TRUE]

null == [null |-> TRUE]

IsNum(x) == DOMAIN x = {"a", "b", "c", "n"}

\* (a + b sqrt(n)) / c in lowest terms; c # 0, n square-free
Norm(a, b, c, n) ==
    LET k == Gcd(Gcd(Abs(a), Abs(b)), Abs(c))
        s == IF c < 0 THEN -1 ELSE 1
    IN  [a |-> s * (a \div k), b |-> s * (b \div k), c |-> s * (c \div k),
         n |-> IF b = 0 THEN 1 ELSE n]

IntNum(k) == [a |-> k, b |-> 0, c |-> 1, n |-> 1]

Rat(p, q) == Norm(p, 0, q, 1)

\* the surd two numbers of one Vector share
Surd(x, y) == IF x.b # 0 THEN x.n ELSE y.n

Add(x, y) ==
    IF ~IsNum(x) \/ ~IsNum(y) THEN NaN
    ELSE Norm(x.a * y.c + y.a * x.c, x.b * y.c + y.b * x.c, x.c * y.c, Surd(x, y))

Neg(x) == IF ~IsNum(x) THEN NaN ELSE [x EXCEPT !.a = -x.a, !.b = -x.b]

Sub(x, y) == Add(x, Neg(y))

Mul(x, y) ==
    IF ~IsNum(x) \/ ~IsNum(y) THEN NaN
    ELSE LET n == Surd(x, y)
         IN  Norm(x.a * y.a + x.b * y.b * n, x.a * y.b + x.b * y.a, x.c * y.c, n)

\* x / y for y # 0
Div(x, y) ==
    IF ~IsNum(x) \/ ~IsNum(y) THEN NaN
    ELSE LET n == Surd(x, y)
             t == [a |-> x.a * y.c, b |-> x.b * y.c, c |-> 1, n |-> n]
             u == [a |-> y.a, b |-> -y.b, c |-> 1, n |-> n]
             p == Mul(t, u)
         IN  Norm(p.a, p.b, p.c * x.c * (y.a * y.a - y.b * y.b * n), p.n)

\* the sign of a number
Sign(x) ==
    IF x.b = 0 THEN Sgn(x.a)
    ELSE IF x.a = 0 THEN Sgn(x.b)
    ELSE IF Sgn(x.a) = Sgn(x.b) THEN Sgn(x.a)
    ELSE \* a and b sqrt(n) pull apart: compare a^2 with b^2 n
         Sgn(x.a) * FracCmp(Abs(x.a), Abs(x.b), Abs(x.b) * x.n, Abs(x.a))

Leq(x, y) == Sign(Sub(y, x)) >= 0

Less(x, y) == Sign(Sub(y, x)) > 0

\* Math.sqrt of an integer m >= 0
Sqrt(m) ==
    IF m = 0 THEN IntNum(0)
    ELSE LET g == SquarePart(m)
         IN  IF g * g = m THEN IntNum(g) ELSE [a |-> 0, b |-> g, c |-> 1, n |-> m \div (g * g)]

RECURSIVE FloorIn(_, _, _)
FloorIn(x, lo, hi) ==
    IF lo >= hi THEN lo
    ELSE LET mid == (lo + hi + 1) \div 2
         IN  IF Leq(IntNum(mid), x) THEN FloorIn(x, mid, hi) ELSE FloorIn(x, lo, mid - 1)

\* Math.floor of a number: the integer h with h <= x < h + 1; the search
\* starts from sqrt(n) taken to 1/64
Floor(x) ==
    IF x.b = 0 THEN x.a \div x.c
    ELSE LET s  == Isqrt(x.n * 64 * 64)
             e1 == (x.a * 64 + x.b * s) \div (x.c * 64)
             e2 == (x.a * 64 + x.b * (s + 1)) \div (x.c * 64)
         IN  FloorIn(x, IF e1 < e2 THEN e1 ELSE e2, IF e1 < e2 THEN e2 ELSE e1)

(***************************************************************************)
(* Arithmetic of JavaScript Numbers on top of it: division by zero, and    *)
(* null used as a number.                                                  *)
(***************************************************************************)
\* ToNumber: null is 0
ToNumber(x) == IF x = null THEN IntNum(0) ELSE x

\* x / y for x >= 0 and y >= 0
JsDiv(x, y) ==
    IF ~IsNum(x) \/ ~IsNum(y) THEN NaN
    ELSE IF Sign(y) = 0 THEN (IF Sign(x) = 0 THEN NaN ELSE Infinity)
    ELSE Div(x, y)

\* k * x for a number k > 0
JsTimes(k, x) == IF x = Infinity THEN Infinity ELSE Mul(k, x)

\* x > y for a number y
JsGreater(x, y) ==
    IF x = Infinity THEN TRUE ELSE IF ~IsNum(x) THEN FALSE ELSE Less(y, x)

\* Math.floor(x) % m as an integer, or NaN
JsFloorMod(x, m) == IF ~IsNum(x) THEN NaN ELSE Floor(x) % m

\* Math.sqrt of a number that is an integer >= 0
SqrtNum(x) == IF ~IsNum(x) THEN NaN ELSE Sqrt(x.a)

\* Math.atan2(dy, dx) for integer dy, dx: the ray of the angle
Atan2(dy, dx) ==
    IF dy.a = 0 /\ dx.a = 0 THEN [dy |-> 0, dx |-> 1]
    ELSE LET g == Gcd(Abs(dy.a), Abs(dx.a))
         IN  [dy |-> dy.a \div g, dx |-> dx.a \div g]

\* Math.cos and Math.sin of an angle (of null: of 0)
Cos(angle) ==
    IF angle = null THEN IntNum(1)
    ELSE Div(IntNum(angle.dx), Sqrt(angle.dx * angle.dx + angle.dy * angle.dy))

Sin(angle) ==
    IF angle = null THEN IntNum(0)
    ELSE Div(IntNum(angle.dy), Sqrt(angle.dx * angle.dx + angle.dy * angle.dy))

(***************************************************************************)
(* Program constants.                                                      *)
(***************************************************************************)
\* the pixels per grid cell that setup() divides the viewport by
CellPx == 28
\* setup()'s offsets
OffsetPx == 20
\* the cap on a Vector's length
MaxLenPx == 30
\* drawArrow's headRadius
headRadius == 5
\* the width of a Vector's stroke
ShaftWidth == 3

(***************************************************************************)
(* The canvas context.  ctx is the sequence of the drawing calls made so   *)
(* far while handling an event; a call is logged as [op, args, by], where  *)
(* by names the caller (the listener, drawGrid, or the Vector at row j,    *)
(* column i of the grid, counted from 1).  An operation that draws takes   *)
(* ctx and gives it back with its calls appended.                          *)
(***************************************************************************)
Listener == [who |-> "listener", j |-> 0, i |-> 0]

Grid == [who |-> "drawGrid", j |-> 0, i |-> 0]

Cell(j, i) == [who |-> "vector", j |-> j, i |-> i]

Call(op, args, by) == [op |-> op, args |-> args, by |-> by]

\* the colour strings
Hsl(hue) == [h |-> hue, s |-> 70, l |-> 35]

Ccc == [hex |-> "ccc"]

(***************************************************************************)
(* dist and angleBetween                                                   *)
(***************************************************************************)
Square(x) == Mul(x, x)

dist(x0, y0, x1, y1) == SqrtNum(Add(Square(Sub(x1, x0)), Square(Sub(y1, y0))))

angleBetween(x0, y0, x1, y1) == Atan2(Sub(y1, y0), Sub(x1, x0))

(***************************************************************************)
(* Vector                                                                  *)
(***************************************************************************)
Vector(midX, midY) == [midX |-> midX, midY |-> midY, angle |-> null, len |-> null]

\* A vertex of the arrow head: radius * cos (or sin) of the angle turned by
\* `thirds` thirds of a full turn, plus the centre's coordinate.
Vertex(fn, radius, angle, thirds, centre) ==
    [fn |-> fn, radius |-> radius, angle |-> angle, thirds |-> thirds, centre |-> centre]

\* the loop of drawArrow from vertex i on
RECURSIVE drawArrowLoop(_, _, _, _, _, _)
drawArrowLoop(ctx, v, x, y, i, by) ==
    IF i >= 3 THEN ctx
    ELSE drawArrowLoop(
             Append(ctx, Call(IF i # 0 THEN "lineTo" ELSE "moveTo",
                              << Vertex("cos", headRadius, v.angle, i, x),
                                 Vertex("sin", headRadius, v.angle, i, y) >>, by)),
             v, x, y, i + 1, by)

\* this.drawArrow(x, y, color)
drawArrow(ctx, v, x, y, color, by) ==
    drawArrowLoop(ctx \o << Call("fillStyle", <<color>>, by), Call("beginPath", << >>, by) >>,
                  v, x, y, 0, by)
    \o << Call("closePath", << >>, by), Call("fill", << >>, by) >>

\* drawFrom with the arrow head drawn at the other end of the shaft
drawFromTail(ctx, v, x0, y0, dx, dy, color, by) ==
    drawArrow(ctx \o << Call("strokeStyle", <<color>>, by),
                        Call("lineWidth", <<ShaftWidth>>, by),
                        Call("beginPath", << >>, by),
                        Call("moveTo", <<x0, y0>>, by),
                        Call("lineTo", <<Sub(x0, dx), Sub(y0, dy)>>, by),
                        Call("stroke", << >>, by) >>,
              v, Sub(x0, dx), Sub(y0, dy), color, by)

\* draw, once x0, y0, dx and dy are computed
drawFrom(ctx, v, x0, y0, dx, dy, color, by) ==
    drawArrow(ctx \o << Call("strokeStyle", <<color>>, by),
                        Call("lineWidth", <<ShaftWidth>>, by),
                        Call("beginPath", << >>, by),
                        Call("moveTo", <<x0, y0>>, by),
                        Call("lineTo", <<Sub(x0, dx), Sub(y0, dy)>>, by),
                        Call("stroke", << >>, by) >>,
              v, x0, y0, color, by)

\* draw, once dx and dy are computed
drawDelta(ctx, v, dx, dy, color, by) ==
    drawFrom(ctx, v, Add(v.midX, Div(dx, IntNum(2))), Add(v.midY, Div(dy, IntNum(2))),
             dx, dy, color, by)

\* this.draw(color)
VectorDraw(ctx, v, color, by) ==
    drawDelta(ctx, v, Mul(ToNumber(v.len), Cos(v.angle)), Mul(ToNumber(v.len), Sin(v.angle)),
              color, by)

\* the factor Vector.update scales length and colour by
Factor(v, mouseX, mouseY, width) ==
    JsDiv(dist(v.midX, v.midY, IntNum(mouseX), IntNum(mouseY)),
          Mul(IntNum(width), Rat(13, 10)))

\* Hue without the wrap at 360
HueNoWrap(factor) == JsFloorMod(JsTimes(Rat(11, 10), JsTimes(IntNum(360), factor)), 360 * 360)

\* the hue Vector.update computes
Hue(factor) == JsFloorMod(JsTimes(Rat(11, 10), JsTimes(IntNum(360), factor)), 360)

\* Capped with the branches of the conditional swapped
CappedSwapped(f200) == IF JsGreater(f200, IntNum(MaxLenPx)) THEN f200 ELSE IntNum(MaxLenPx)

\* (f200 > 30) ? 30 : f200
Capped(f200) == IF JsGreater(f200, IntNum(MaxLenPx)) THEN IntNum(MaxLenPx) ELSE f200

\* the length Vector.update computes
Length(factor) == Capped(JsTimes(IntNum(200), factor))

\* update's last statement: draw the updated Vector w
updateDraw(ctx, w, color, by) == [v |-> w, ctx |-> VectorDraw(ctx, w, color, by)]

\* updateWith drawing before it assigns the angle and the length
updateWithStale(ctx, v, angle, factor, by) ==
    [v |-> [v EXCEPT !.angle = angle, !.len = Length(factor)],
     ctx |-> VectorDraw(ctx, v, Hsl(Hue(factor)), by)]

\* update, once the angle and the factor are computed
updateWith(ctx, v, angle, factor, by) ==
    updateDraw(ctx, [v EXCEPT !.angle = angle, !.len = Length(factor)], Hsl(Hue(factor)), by)

\* this.update(mouseX, mouseY): the Vector and ctx afterwards
VectorUpdate(ctx, v, mouseX, mouseY, width, by) ==
    updateWith(ctx, v, angleBetween(v.midX, v.midY, IntNum(mouseX), IntNum(mouseY)),
               Factor(v, mouseX, mouseY, width), by)

(***************************************************************************)
(* VectorField                                                             *)
(***************************************************************************)
\* The widths w below 260 for which the double w / (w / 28) is just below 28:
\* setup() stores cols = w / 28 rounded to a double, and init() divides w by it.
RoundsBelow ==
    {9, 18, 29, 36, 58, 65, 72, 79, 116, 123, 130, 137, 144, 151, 158, 165,
     225, 232, 239, 246, 253}

\* Math.floor(q) for q = extent / count as the doubles give it
FloorDouble(extent, count, q) ==
    IF ~IsNum(q) THEN q
    ELSE IF count.c # 1 /\ q.c = 1 /\ q.b = 0 /\ extent \in RoundsBelow THEN IntNum(q.a - 1)
    ELSE IntNum(Floor(q))

\* FloorQuot without the Math.floor
FloorQuotNoFloor(extent, count) == JsDiv(IntNum(extent), count)

\* Math.floor(extent / count): extent an integer >= 0, count a Number >= 0
FloorQuot(extent, count) == FloorDouble(extent, count, JsDiv(IntNum(extent), count))

\* new VectorField(cols, rows, xOffset, yOffset)
VectorField(cols, rows, xOffset, yOffset) ==
    [size |-> <<cols, rows>>, offsets |-> <<IntNum(xOffset), IntNum(yOffset)>>, grid |-> << >>]

\* the inner loop of init: the row so far, extended from column i on
RECURSIVE initRow(_, _, _, _, _, _)
initRow(f, spaceX, x, y, i, row) ==
    IF ~Less(IntNum(i), f.size[1]) THEN row
    ELSE initRow(f, spaceX, Add(x, spaceX), y, i + 1, Append(row, Vector(x, y)))

\* the outer loop of init: the grid so far, extended from row j on
RECURSIVE initRows(_, _, _, _, _, _)
initRows(f, spaceX, spaceY, y, j, grid) ==
    IF ~Less(IntNum(j), f.size[2]) THEN grid
    ELSE initRows(f, spaceX, spaceY, Add(y, spaceY), j + 1,
                  Append(grid, initRow(f, spaceX, f.offsets[1], y, 0, << >>)))

\* this.init(): the Field afterwards
FieldInit(f, cv) ==
    [f EXCEPT !.grid = initRows(f, FloorQuot(cv.width, f.size[1]),
                                FloorQuot(cv.height, f.size[2]), f.offsets[2], 0, f.grid)]

\* the loop over the rows in drawGrid, from row j on; row[0] of an empty row
\* is undefined, and reading its midY throws
RECURSIVE gridRows(_, _, _, _)
gridRows(ctx, f, cv, j) ==
    IF j > Len(f.grid) THEN [ctx |-> ctx, err |-> FALSE]
    ELSE IF Len(f.grid[j]) = 0 THEN [ctx |-> ctx, err |-> TRUE]
    ELSE gridRows(ctx \o << Call("moveTo", <<IntNum(0), f.grid[j][1].midY>>, Grid),
                            Call("lineTo", <<IntNum(cv.width), f.grid[j][1].midY>>, Grid) >>,
                  f, cv, j + 1)

\* the loop over the Vectors of the first row in drawGrid, from column i on
RECURSIVE gridCols(_, _, _, _)
gridCols(ctx, f, cv, i) ==
    IF i > Len(f.grid[1]) THEN ctx
    ELSE gridCols(ctx \o << Call("moveTo", <<f.grid[1][i].midX, IntNum(0)>>, Grid),
                            Call("lineTo", <<f.grid[1][i].midX, IntNum(cv.height)>>, Grid) >>,
                  f, cv, i + 1)

\* drawGrid after its first loop: an empty grid has no grid[0] to iterate
\* over, and the for...of throws
gridRest(rows, f, cv) ==
    IF rows.err \/ Len(f.grid) = 0 THEN [ctx |-> rows.ctx, err |-> TRUE]
    ELSE [ctx |-> Append(gridCols(rows.ctx, f, cv, 1), Call("stroke", << >>, Grid)),
          err |-> FALSE]

\* this.drawGrid(): ctx afterwards, and whether it threw
drawGrid(ctx, f, cv) ==
    gridRest(gridRows(ctx \o << Call("lineWidth", <<1>>, Grid),
                                Call("strokeStyle", <<Ccc>>, Grid),
                                Call("beginPath", << >>, Grid) >>, f, cv, 1),
             f, cv)

\* updateCell storing every updated Vector in the first column of its row
updateCellFirst(st, j, i, u) == [grid |-> [st.grid EXCEPT ![j][1] = u.v], ctx |-> u.ctx]

\* the grid and ctx after one vector.update(mouseX, mouseY)
updateCell(st, j, i, u) == [grid |-> [st.grid EXCEPT ![j][i] = u.v], ctx |-> u.ctx]

\* the inner loop of update: row j from column i on
RECURSIVE updateRow(_, _, _, _, _, _)
updateRow(st, mouseX, mouseY, cv, j, i) ==
    IF i > Len(st.grid[j]) THEN st
    ELSE updateRow(updateCell(st, j, i,
                              VectorUpdate(st.ctx, st.grid[j][i], mouseX, mouseY,
                                           cv.width, Cell(j, i))),
                   mouseX, mouseY, cv, j, i + 1)

\* the outer loop of update: the rows from row j on
RECURSIVE updateRows(_, _, _, _, _)
updateRows(st, mouseX, mouseY, cv, j) ==
    IF j > Len(st.grid) THEN st
    ELSE updateRows(updateRow(st, mouseX, mouseY, cv, j, 1), mouseX, mouseY, cv, j + 1)

\* update after drawGrid
updateRest(g, f, mouseX, mouseY, cv) ==
    IF g.err THEN [grid |-> f.grid, ctx |-> g.ctx, err |-> TRUE]
    ELSE [err |-> FALSE] @@ updateRows([grid |-> f.grid, ctx |-> g.ctx], mouseX, mouseY, cv, 1)

\* FieldUpdate calling drawGrid after the loop over the Vectors
FieldUpdateGridLast(ctx, f, mouseX, mouseY, cv) ==
    [err |-> FALSE]
    @@ drawGrid(updateRows([grid |-> f.grid, ctx |-> ctx], mouseX, mouseY, cv, 1).ctx, f, cv)
    @@ [grid |-> updateRows([grid |-> f.grid, ctx |-> ctx], mouseX, mouseY, cv, 1).grid]

\* this.update(mouseX, mouseY): the grid and ctx afterwards, and whether it threw
FieldUpdate(ctx, f, mouseX, mouseY, cv) == updateRest(drawGrid(ctx, f, cv), f, mouseX, mouseY, cv)

\* the mousemove listener
Handle(f, x, y, cv) ==
    FieldUpdate(<< Call("clearRect",
                        <<IntNum(0), IntNum(0), IntNum(cv.width), IntNum(cv.height)>>,
                        Listener) >>,
                f, x, y, cv)

(***************************************************************************)
(* The state.                                                              *)
(***************************************************************************)
VARIABLES
    pc,       \* "load" before setup() has run, "ready" after it
    canvas,   \* the canvas: [width, height]
    field,    \* the VectorField: [size, offsets, grid]
    mouse,    \* the coordinates of the mousemove event handled last
    events,   \* the number of mousemove events handled
    ops,      \* the drawing calls made while handling that event
    err,      \* whether handling it threw
    inits     \* the number of calls of field.init()

vars == <<pc, canvas, field, mouse, events, ops, err, inits>>

HalfCell == CellPx \div 2

\* the viewport widths tried; 36 is one whose column spacing rounds to 27
Widths == {k * HalfCell : k \in 0 .. MaxHalfCells} \cup {36}

\* the viewport heights tried: none, half a cell, one cell and two cells
Heights == {0, HalfCell, CellPx, 2 * CellPx}

\* the pointer coordinates tried: x around the first column, y on the first
\* row, between the rows, and on the second row
MouseXs == {OffsetPx + 7 * k : k \in -MaxMouse .. MaxMouse}

MouseYs == {OffsetPx, OffsetPx + 7, OffsetPx + CellPx}

undefined == [undefined |-> TRUE]

Init ==
    /\ pc = "load"
    /\ canvas = undefined
    /\ field = undefined
    /\ mouse = [x |-> 0, y |-> 0]
    /\ events = 0
    /\ ops = << >>
    /\ err = FALSE
    /\ inits = 0

\* setup(), in a viewport of innerWidth by innerHeight pixels
Setup(innerWidth, innerHeight) ==
    /\ pc = "load"
    /\ canvas' = [width |-> innerWidth, height |-> innerHeight]
    /\ field' = FieldInit(VectorField(Rat(innerWidth, CellPx), Rat(innerHeight, CellPx),
                                      OffsetPx, OffsetPx),
                          [width |-> innerWidth, height |-> innerHeight])
    /\ inits' = 1
    /\ pc' = "ready"
    /\ UNCHANGED <<mouse, events, ops, err>>

\* a mousemove event at (x, y), handled to its end
MouseMove(x, y) ==
    /\ pc = "ready"
    /\ events < MaxEvents
    /\ \E u \in {Handle(field, x, y, canvas)} :
           /\ field' = [field EXCEPT !.grid = u.grid]
           /\ ops' = u.ctx
           /\ err' = u.err
    /\ mouse' = [x |-> x, y |-> y]
    /\ events' = events + 1
    /\ UNCHANGED <<pc, canvas, inits>>

Next ==
    \/ \E w \in Widths, h \in Heights : Setup(w, h)
    \/ \E x \in MouseXs, y \in MouseYs : MouseMove(x, y)

Spec == Init /\ [][Next]_vars

(***************************************************************************)
(* A Field on its own: constructed with whole numbers of columns and rows  *)
(* on a surface of some size, its init() called up to MaxInits times.      *)
(***************************************************************************)
\* the numbers of columns and of rows tried
Sizes == (1 .. MaxSize) \cup {10}

\* the surfaces tried, as <<width, height>>
Surfaces == {<<280, 280>>, <<100, 50>>, <<7, 0>>}

\* the offsets tried, as <<xOffset, yOffset>>
Offsets == {<<OffsetPx, OffsetPx>>, <<0, 5>>}

InitField ==
    /\ pc = "field"
    /\ \E s \in Surfaces : canvas = [width |-> s[1], height |-> s[2]]
    /\ \E cols \in Sizes, rows \in Sizes, o \in Offsets :
           field = VectorField(IntNum(cols), IntNum(rows), o[1], o[2])
    /\ mouse = [x |-> 0, y |-> 0]
    /\ events = 0
    /\ ops = << >>
    /\ err = FALSE
    /\ inits = 0

\* field.init()
CallInit ==
    /\ pc = "field"
    /\ inits < MaxInits
    /\ field' = FieldInit(field, canvas)
    /\ inits' = inits + 1
    /\ UNCHANGED <<pc, canvas, mouse, events, ops, err>>

NextField == CallInit

SpecField == InitField /\ [][NextField]_vars

(***************************************************************************)
(* What the properties below read off the state.                           *)
(***************************************************************************)
\* the cells of the grid, as <<row, column>> counted from 1
Cells == UNION {{<<j, i>> : i \in 1 .. Len(field.grid[j])} : j \in 1 .. Len(field.grid)}

VectorAt(c) == field.grid[c[1]][c[2]]

\* the anchors of a grid, row by row
Anchors(grid) ==
    [j \in 1 .. Len(grid) |-> [i \in 1 .. Len(grid[j]) |-> <<grid[j][i].midX, grid[j][i].midY>>]]

\* the places in ops of the calls of `op` made by `by`
Places(op, by) == {k \in 1 .. Len(ops) : ops[k].by = by /\ ops[k].op = op}

\* the places in ops of the calls made by drawGrid, and by Vectors
GridPlaces == {k \in 1 .. Len(ops) : ops[k].by = Grid}

VectorPlaces == {k \in 1 .. Len(ops) : ops[k].by.who = "vector"}

\* the first of a nonempty set of places
First(ks) == CHOOSE k \in ks : \A l \in ks : k <= l

\* the ends of the shaft of the Vector of cell c: the points of its first
\* moveTo and of its first lineTo
ShaftStart(c) == ops[First(Places("moveTo", Cell(c[1], c[2])))].args

ShaftEnd(c) == ops[First(Places("lineTo", Cell(c[1], c[2])))].args

\* the places of the vertices of the arrow head of the Vector of cell c: its
\* moveTo and lineTo calls after the shaft was stroked
HeadPlaces(c) ==
    {k \in Places("moveTo", Cell(c[1], c[2])) \cup Places("lineTo", Cell(c[1], c[2])) :
        k > First(Places("stroke", Cell(c[1], c[2])))}

\* the colour the Vector of cell c was stroked with
StrokeColour(c) == ops[First(Places("strokeStyle", Cell(c[1], c[2])))].args[1]

\* the pointer of the event handled last
MouseX == IntNum(mouse.x)

MouseY == IntNum(mouse.y)

\* the distance from the anchor of v to the pointer, and the factor, as the
\* specification defines them
SpecDist(v) ==
    Sqrt((mouse.x - v.midX.a) * (mouse.x - v.midX.a) + (mouse.y - v.midY.a) * (mouse.y - v.midY.a))

SpecFactor(v) == Div(SpecDist(v), Rat(13 * canvas.width, 10))

\* r is the ray from the anchor of v to the pointer (the ray of angle 0
\* when they meet)
RayToPointer(r, v) ==
    /\ DOMAIN r = {"dy", "dx"}
    /\ IF mouse.x = v.midX.a /\ mouse.y = v.midY.a
       THEN r = [dy |-> 0, dx |-> 1]
       ELSE /\ r.dy * (mouse.x - v.midX.a) = r.dx * (mouse.y - v.midY.a)
            /\ Sgn(r.dy) = Sgn(mouse.y - v.midY.a)
            /\ Sgn(r.dx) = Sgn(mouse.x - v.midX.a)
            /\ Gcd(Abs(r.dy), Abs(r.dx)) = 1

Min(x, y) == IF Leq(x, y) THEN x ELSE y

Zero == IntNum(0)

Two == IntNum(2)

\* a is before b, or is b, in row-major order
RowMajorLeq(a, b) == a.j < b.j \/ (a.j = b.j /\ a.i <= b.i)

(***************************************************************************)
(* The properties.                                                         *)
(***************************************************************************)
\* C1: the calls made while handling a mousemove event come in this order:
\* the clearRect of the whole canvas first and only once, then every call of
\* drawGrid, with each grid line laid out stroked by it, then the calls of
\* the Vectors, each Vector of the grid stroked and filled exactly once, in
\* row-major order.
DrawOrder ==
    events > 0 =>
        /\ Len(ops) >= 1
        /\ ops[1] = Call("clearRect",
                         <<Zero, Zero, IntNum(canvas.width), IntNum(canvas.height)>>, Listener)
        /\ \A k \in 2 .. Len(ops) : ops[k].op # "clearRect" /\ ops[k].by # Listener
        /\ \A k \in GridPlaces, l \in VectorPlaces : k < l
        /\ \A k \in GridPlaces :
               ops[k].op \in {"moveTo", "lineTo"} =>
                   \E l \in GridPlaces : l > k /\ ops[l].op = "stroke"
        /\ \A k \in VectorPlaces : <<ops[k].by.j, ops[k].by.i>> \in Cells
        /\ \A c \in Cells :
               /\ Cardinality(Places("stroke", Cell(c[1], c[2]))) = 1
               /\ Cardinality(Places("fill", Cell(c[1], c[2]))) = 1
        /\ \A k \in VectorPlaces, l \in VectorPlaces : k < l => RowMajorLeq(ops[k].by, ops[l].by)

\* an event was handled on a grid of at least two rows and two columns
DrawOrderWitness ==
    /\ events > 0
    /\ ~err
    /\ <<2, 2>> \in Cells
    /\ Places("stroke", Grid) # {}

\* C2: handling a mousemove event leaves the number of rows, the number of
\* Vectors of each row and every anchor as they were, and the size, the
\* offsets and the canvas too.
AnchorsFixed ==
    [][pc = "ready" =>
           /\ Anchors(field'.grid) = Anchors(field.grid)
           /\ field'.size = field.size
           /\ field'.offsets = field.offsets
           /\ canvas' = canvas]_vars

\* two events were handled on a grid with two Vectors in its first row
AnchorsFixedWitness ==
    /\ events >= 2
    /\ ~err
    /\ <<1, 2>> \in Cells
    /\ \A c \in Cells : VectorAt(c).len # null

\* C3: after an event is handled every Vector holds the angle and the length
\* derived from that event's pointer, and it was drawn with them: its shaft
\* starts at anchor + (len/2)(cos angle, sin angle) and its arrow head turns
\* from that angle.
FreshValues ==
    events > 0 =>
        \A c \in Cells :
            LET v == VectorAt(c)
                a == v.angle
                l == Min(Mul(IntNum(200), SpecFactor(v)), IntNum(MaxLenPx))
            IN  /\ RayToPointer(a, v)
                /\ v.len = l
                /\ ShaftStart(c) = << Add(v.midX, Div(Mul(l, Cos(a)), Two)),
                                      Add(v.midY, Div(Mul(l, Sin(a)), Two)) >>
                /\ \A k \in HeadPlaces(c) : ops[k].args[1].angle = a /\ ops[k].args[2].angle = a

\* a second event was handled, and some Vector is shorter than the cap
FreshValuesWitness ==
    /\ events >= 2
    /\ ~err
    /\ \E c \in Cells : Less(Zero, VectorAt(c).len) /\ Less(VectorAt(c).len, IntNum(MaxLenPx))

\* C4: after Vector.update the length is a number in [0, 30], and it is
\* min(200 * factor, 30) for factor = dist(anchor, pointer) / (width * 1.3).
LenBounded ==
    events > 0 =>
        \A c \in Cells :
            LET v == VectorAt(c)
            IN  /\ IsNum(v.len)
                /\ Leq(Zero, v.len)
                /\ Leq(v.len, IntNum(30))
                /\ v.len = Min(Mul(IntNum(200), SpecFactor(v)), IntNum(30))

\* one Vector is capped at 30 and another is shorter and not zero
LenBoundedWitness ==
    /\ events > 0
    /\ \E c \in Cells : /\ VectorAt(c).len = IntNum(30)
                        /\ Less(IntNum(30), Mul(IntNum(200), SpecFactor(VectorAt(c))))
    /\ \E c \in Cells : Less(Zero, VectorAt(c).len) /\ Less(VectorAt(c).len, IntNum(30))

\* C5: the hue a Vector is drawn with is an integer h in [0, 360) with
\* h + 360 k <= 360 * factor * 1.1 < h + 360 k + 1 for a whole number k of turns.
HueWraps ==
    events > 0 =>
        \A c \in Cells :
            LET h == StrokeColour(c).h
                x == Mul(IntNum(396), SpecFactor(VectorAt(c)))
            IN  /\ h \in 0 .. 359
                /\ \E k \in 0 .. 9 :
                       Leq(IntNum(h + 360 * k), x) /\ Less(x, IntNum(h + 360 * k + 1))
                /\ StrokeColour(c) = Hsl(h)

\* some Vector is so far from the pointer that 360 * factor * 1.1 >= 360
HueWrapsWitness ==
    /\ events > 0
    /\ \E c \in Cells : Leq(IntNum(360), Mul(IntNum(396), SpecFactor(VectorAt(c))))

\* C6: a call of drawGrid that returns lays out exactly `rows` horizontal
\* segments and exactly `cols` vertical segments, rows and cols being the size
\* the Field was constructed with.
GridSegmentCounts ==
    (events > 0 /\ ~err) =>
        /\ IntNum(Cardinality({k \in GridPlaces : /\ ops[k].op = "moveTo"
                                                   /\ ops[k].args[1] = Zero
                                                   /\ ops[k + 1].op = "lineTo"
                                                   /\ ops[k + 1].args[2] = ops[k].args[2]}))
               = field.size[2]
        /\ IntNum(Cardinality({k \in GridPlaces : /\ ops[k].op = "moveTo"
                                                   /\ ops[k].args[2] = Zero
                                                   /\ ops[k + 1].op = "lineTo"
                                                   /\ ops[k + 1].args[1] = ops[k].args[1]}))
               = field.size[1]

\* C7: after init() was called again the Field has the grid it had after the
\* first call, which is the grid init() gives a Field that has none yet.
InitIdempotent ==
    inits >= 1 => field.grid = FieldInit([field EXCEPT !.grid = << >>], canvas).grid

\* C8: after init() on a Field with whole cols, rows >= 1 the Vector at row j,
\* column i has the anchor (xOffset + i * floor(W / cols), yOffset + j * floor(H / rows)).
InitAnchors ==
    (pc = "field" /\ inits >= 1) =>
        LET cols == field.size[1].a
            rows == field.size[2].a
        IN  /\ Len(field.grid) >= rows
            /\ \A j \in 0 .. rows - 1 :
                   /\ Len(field.grid[j + 1]) = cols
                   /\ \A i \in 0 .. cols - 1 :
                          /\ field.grid[j + 1][i + 1].midX
                                 = IntNum(field.offsets[1].a + i * (canvas.width \div cols))
                          /\ field.grid[j + 1][i + 1].midY
                                 = IntNum(field.offsets[2].a + j * (canvas.height \div rows))

\* the scenario: a 280 x 280 surface, 10 columns and rows, offsets (20, 20)
InitAnchorsWitness ==
    /\ pc = "field"
    /\ inits = 1
    /\ canvas = [width |-> 280, height |-> 280]
    /\ field.size = <<IntNum(10), IntNum(10)>>
    /\ field.offsets = <<IntNum(20), IntNum(20)>>
    /\ Anchors(field.grid)[1][1] = <<IntNum(20), IntNum(20)>>
    /\ Anchors(field.grid)[1][2] = <<IntNum(48), IntNum(20)>>
    /\ Anchors(field.grid)[10][10] = <<IntNum(272), IntNum(272)>>

\* C9: handling a mousemove event never throws, whatever the viewport measured
\* at setup; a Vector whose anchor the pointer is at gets angle 0 and length 0
\* and is drawn with hue 0.
NoErrorConditions ==
    events > 0 =>
        /\ ~err
        /\ \A c \in Cells :
               (VectorAt(c).midX = MouseX /\ VectorAt(c).midY = MouseY) =>
                   /\ VectorAt(c).angle = [dy |-> 0, dx |-> 1]
                   /\ VectorAt(c).len = Zero
                   /\ StrokeColour(c).h = 0

\* C10: the shaft of a Vector runs from anchor + (dx/2, dy/2) to
\* anchor - (dx/2, dy/2) for (dx, dy) = len * (cos angle, sin angle): its
\* midpoint is the anchor, and no end is the anchor unless len = 0.  The arrow
\* head is filled once, its three vertices around the first end, which lies
\* on the pointer's side of the anchor, and not around the second.
ShaftCentred ==
    events > 0 =>
        \A c \in Cells :
            LET v  == VectorAt(c)
                p0 == ShaftStart(c)
                p1 == ShaftEnd(c)
                dx == Mul(v.len, Cos(v.angle))
                dy == Mul(v.len, Sin(v.angle))
            IN  /\ p0 = <<Add(v.midX, Div(dx, Two)), Add(v.midY, Div(dy, Two))>>
                /\ p1 = <<Sub(v.midX, Div(dx, Two)), Sub(v.midY, Div(dy, Two))>>
                /\ Div(Add(p0[1], p1[1]), Two) = v.midX
                /\ Div(Add(p0[2], p1[2]), Two) = v.midY
                /\ Sign(v.len) # 0 => p0 # <<v.midX, v.midY>> /\ p1 # <<v.midX, v.midY>>
                /\ Cardinality(Places("fill", Cell(c[1], c[2]))) = 1
                /\ Cardinality(HeadPlaces(c)) = 3
                /\ \A k \in HeadPlaces(c) :
                       /\ <<ops[k].args[1].centre, ops[k].args[2].centre>> = p0
                       /\ ops[k].args[1].radius = headRadius
                       /\ Sign(v.len) # 0 => <<ops[k].args[1].centre, ops[k].args[2].centre>> # p1
                /\ {ops[k].args[1].thirds : k \in HeadPlaces(c)} = {0, 1, 2}
                /\ Sign(v.len) # 0 =>
                       Sign(Add(Mul(Sub(p0[1], v.midX), Sub(MouseX, v.midX)),
                                Mul(Sub(p0[2], v.midY), Sub(MouseY, v.midY)))) > 0

\* the pointer is at the anchor of one Vector and away from another's
ShaftCentredWitness ==
    /\ events > 0
    /\ \E c \in Cells : VectorAt(c).len = Zero /\ ShaftStart(c) = ShaftEnd(c)
    /\ \E c \in Cells : Sign(VectorAt(c).len) > 0 /\ VectorAt(c).angle.dy # 0 /\ VectorAt(c).angle.dx # 0
====
